---- MODULE Spec2Model ----
(***************************************************************************)
(* Model of the business routes of bottle_crush_backend                    *)
(* (app/routes/business.py): create_business, get_business,                *)
(* get_all_businesses, delete_business and get_my_businesses, over the two *)
(* tables they read and write, User and Business.                          *)
(*                                                                         *)
(* Spec  runs the handlers one request at a time, each handler one action. *)
(* SpecC runs create_business in two workers, one database statement per   *)
(* step, to study the check-then-insert race on the business name.         *)
(*                                                                         *)
(* Columns that no handler of this file reads back (password, mobile,      *)
(* updated_by, the timestamps and the flags) are left out of the rows.     *)
(***************************************************************************)
EXTENDS Integers, FiniteSets, Sequences, TLC

VARIABLES
    users,           \* the User table: a set of rows
    businesses,      \* the Business table: a set of rows
    req,             \* the request served last
    resp,            \* the response to it
    pre_users,       \* history: the User table when that request arrived
    pre_businesses,  \* history: the Business table when that request arrived
    serial,          \* SpecC: TRUE when a request starts only while no other is in flight
    pc,              \* SpecC: each worker's position in create_business
    loc              \* SpecC: each worker's request and locals

vars == <<users, businesses, req, resp, pre_users, pre_businesses, serial, pc, loc>>

(***************************************************************************)
(* Bounds                                                                  *)
(***************************************************************************)
MaxUserId == 2
MaxBusinessId == 2
MaxSkip == 1
MaxLimit == 2
MaxRequests == 1

UserIds == 1..MaxUserId
BusinessIds == 1..MaxBusinessId
Emails == {"admin@x", "a@x"}
Names == {"n1", "n2"}

(***************************************************************************)
(* Program constants                                                       *)
(***************************************************************************)
LogoLimit == 5 * 1024 * 1024

NoLogo == [file |-> FALSE, len |-> 0]
Logos == {NoLogo} \cup {[file |-> TRUE, len |-> n] : n \in {LogoLimit, LogoLimit + 1}}

\* Database exceptions the handlers catch, as an input of the request: the
\* block of the handler in which the database raises.
CreateFaults == {"none", "user", "check", "business"}
DeleteFaults == {"none", "delete"}

(***************************************************************************)
(* The external auth collaborator (app.core.security)                      *)
(***************************************************************************)
\* get_current_user: the caller is an authenticated user; the handlers read
\* current_user["id"] and current_user["role"].
get_current_user(U) == {[id |-> u.id, role |-> u.role] : u \in U}

\* role_required(role): the dependency lets the request through only when
\* the caller's role is the required one; otherwise the answer is 403.
role_required(role, cu) == cu.role = role

(***************************************************************************)
(* The ORM session                                                         *)
(***************************************************************************)
\* db.add(row); db.commit(): neither table declares a constraint at this
\* layer, so the insert adds the row whatever the other rows are.
db_add(T, row) == T \cup {row}

\* db.delete(row); db.commit()
db_delete(T, row) == T \ {row}

\* The ids the database may generate for a new row of table T.
FreeIds(T, Ids) == Ids \ {t.id : t \in T}


(***************************************************************************)
(* Requests and responses                                                  *)
(***************************************************************************)
Request(op, cu, json, email, name, logo, fault, business_id, skip, limit) ==
    [op |-> op, cu |-> cu, json |-> json, email |-> email, name |-> name,
     logo |-> logo, fault |-> fault, business_id |-> business_id,
     skip |-> skip, limit |-> limit]

NoUser == [id |-> 0, role |-> "none"]
NoRequest == Request("none", NoUser, "ok", "", "", NoLogo, "none", 0, 0, 0)

\* What a handler leaves behind: the two tables and the HTTP answer.
Answer(U, B, status, business_id, user_id, rows) ==
    [users |-> U, businesses |-> B, status |-> status,
     business_id |-> business_id, user_id |-> user_id, rows |-> rows]

Response(a) ==
    [status |-> a.status, business_id |-> a.business_id, user_id |-> a.user_id,
     rows |-> a.rows]

NoResponse == Response(Answer({}, {}, 0, 0, 0, <<>>))

(***************************************************************************)
(* create_business                                                         *)
(***************************************************************************)
CreateRequiredRole == "t_admin"

\* Mutant: the email lookup finds nothing, so a user is always created.
ExistingUsers_None(U, r) == {}

\* db.query(User).filter(User.email == user_data["email"])
ExistingUsers(U, r) == {u \in U : u.email = r.email}

\* User(email=..., role='t_customer', created_by=current_user["id"], ...)
NewUser(uid, r, cu) ==
    [id |-> uid, email |-> r.email, role |-> "t_customer", created_by |-> cu.id]

\* The rows new_user may be bound to: .first() of the matching rows, or the
\* row the database returns for the insert, under any id it may generate.
UserChoices(U, r, cu) ==
    IF ExistingUsers(U, r) # {}
    THEN ExistingUsers(U, r)
    ELSE {NewUser(uid, r, cu) : uid \in FreeIds(U, UserIds)}

\* Step 1: reuse or create the user. A database exception is rolled back
\* and answered with 500.
Step1(U, r, nu) ==
    IF r.fault = "user"
    THEN [status |-> 500, users |-> U]
    ELSE IF ExistingUsers(U, r) # {}
         THEN [status |-> 0, users |-> U]
         ELSE [status |-> 0, users |-> db_add(U, nu)]

\* Mutant: the name lookup finds nothing, so the name is never refused.
ExistingBusinesses_None(B, r) == {}

\* db.query(Business).filter(Business.name == business_data["name"])
ExistingBusinesses(B, r) == {b \in B : b.name = r.name}

\* Step 2: the status the try block raises (0: none), then the status its
\* "except Exception" handler turns it into. HTTPException is an Exception,
\* so the 400 raised inside the block is caught by the block's own handler.
Step2Raised(B, r) ==
    IF r.fault = "check" THEN 500
    ELSE IF ExistingBusinesses(B, r) # {} THEN 400
    ELSE 0

Step2(B, r) == IF Step2Raised(B, r) # 0 THEN 500 ELSE 0

\* Step 3: read the logo; more than 5 MiB raises 400 inside the try block,
\* whose handler rolls the session back and answers 400.
Step3Raised(r) ==
    IF r.logo.file /\ r.logo.len > LogoLimit THEN 400 ELSE 0

Step3(r) == IF Step3Raised(r) # 0 THEN 400 ELSE 0

logo_binary(r) == IF r.logo.file THEN r.logo ELSE NoLogo

\* Mutant: the owner is the caller (as created_by is), not new_user.
NewBusiness_OwnerIsCaller(bid, r, nu, cu) ==
    [id |-> bid, name |-> r.name, logo_image |-> IF r.logo.file THEN r.logo ELSE NoLogo,
     business_owner |-> cu.id, created_by |-> cu.id]

\* Mutant: the owner is the id of the user row that would be created next,
\* whether or not the user was created.
NewBusiness_OwnerIsNextId(bid, r, nu, cu) ==
    [id |-> bid, name |-> r.name, logo_image |-> IF r.logo.file THEN r.logo ELSE NoLogo,
     business_owner |-> nu.id + 1, created_by |-> cu.id]

\* Business(name=..., logo_image=logo_binary, business_owner=new_user.id, ...)
NewBusiness(bid, r, nu, cu) ==
    [id |-> bid, name |-> r.name, logo_image |-> logo_binary(r),
     business_owner |-> nu.id, created_by |-> cu.id]

\* Step 4: insert the business. An exception is rolled back, answered 500.
Step4(B, r, nu, cu, bid) ==
    IF r.fault = "business"
    THEN [status |-> 500, businesses |-> B]
    ELSE [status |-> 0, businesses |-> db_add(B, NewBusiness(bid, r, nu, cu))]

create_business(U, B, r, nu, bid) ==
    IF ~role_required(CreateRequiredRole, r.cu) THEN Answer(U, B, 403, 0, 0, <<>>)
    ELSE IF r.json # "ok" THEN Answer(U, B, 400, 0, 0, <<>>)
    ELSE LET s1 == Step1(U, r, nu) IN
         IF s1.status # 0 THEN Answer(s1.users, B, s1.status, 0, 0, <<>>)
         ELSE IF Step2(B, r) # 0 THEN Answer(s1.users, B, Step2(B, r), 0, 0, <<>>)
         ELSE IF Step3(r) # 0 THEN Answer(s1.users, B, Step3(r), 0, 0, <<>>)
         ELSE LET s4 == Step4(B, r, nu, r.cu, bid) IN
              IF s4.status # 0
              THEN Answer(s1.users, s4.businesses, s4.status, 0, 0, <<>>)
              ELSE Answer(s1.users, s4.businesses, 200, bid, nu.id, <<>>)

\* The create_business requests a caller can send. The role dependency
\* answers before the handler reads the form, so the requests of a caller it
\* turns away are enumerated without a logo and without a database fault.
CreateRequests(U) ==
    {Request("create_business", cu, "ok", email, name, logo, fault, 0, 0, 0) :
        cu \in {c \in get_current_user(U) : role_required(CreateRequiredRole, c)},
        email \in Emails, name \in Names, logo \in Logos, fault \in CreateFaults}
    \cup
    {Request("create_business", cu, "ok", email, name, NoLogo, "none", 0, 0, 0) :
        cu \in get_current_user(U), email \in Emails, name \in Names}
    \cup
    {Request("create_business", cu, "malformed", "", "", NoLogo, "none", 0, 0, 0) :
        cu \in get_current_user(U)}

(***************************************************************************)
(* get_business                                                            *)
(***************************************************************************)
\* base64.b64encode(...): the length of the encoding of n bytes
b64len(n) == 4 * ((n + 2) \div 3)

b64encode(logo) == [file |-> logo.file, len |-> b64len(logo.len)]

get_business(U, B, r) ==
    LET found == {b \in B : b.id = r.business_id} IN
    IF found = {}
    THEN Answer(U, B, 404, 0, 0, <<>>)
    ELSE LET business == CHOOSE b \in found : TRUE IN
         Answer(U, B, 200, 0, 0,
                <<[id |-> business.id, name |-> business.name,
                   logo_image |-> IF business.logo_image.file
                                  THEN b64encode(business.logo_image)
                                  ELSE NoLogo,
                   created_by |-> business.created_by]>>)

(***************************************************************************)
(* get_all_businesses, get_my_businesses                                   *)
(***************************************************************************)
serialize_business_with_owner(business, owner_email) ==
    [id |-> business.id, name |-> business.name,
     logo_image |-> b64encode(business.logo_image),
     business_owner |-> business.business_owner,
     created_by |-> business.created_by, owner_email |-> owner_email]

\* db.query(Business, User.email).join(User, Business.business_owner == User.id)
JoinOwner(U, B) ==
    {[business |-> b, owner_email |-> u.email] :
        <<b, u>> \in {x \in B \X U : x[1].business_owner = x[2].id}}

\* The query has no ORDER BY: the database may return the rows in any order.
Orderings(S) ==
    {s \in [1..Cardinality(S) -> S] :
        \A i, j \in 1..Cardinality(S) : i # j => s[i] # s[j]}

Min(a, b) == IF a < b THEN a ELSE b

\* .offset(skip).limit(limit).all()
Page(ord, skip, limit) ==
    [i \in 1..(Min(skip + limit, Len(ord)) - Min(skip, Len(ord))) |->
        ord[Min(skip, Len(ord)) + i]]

Serialize(page) ==
    [i \in 1..Len(page) |->
        serialize_business_with_owner(page[i].business, page[i].owner_email)]

AllBusinessesQuery(U, B, r) == JoinOwner(U, B)

get_all_businesses(U, B, r, ord) ==
    LET page == Page(ord, r.skip, r.limit) IN
    IF page = <<>>
    THEN Answer(U, B, 404, 0, 0, <<>>)
    ELSE Answer(U, B, 200, 0, 0, Serialize(page))

\* Mutant: the owner filter is missing, as in get_all_businesses.
MyBusinessesQuery_NoFilter(U, B, r) == JoinOwner(U, B)

\* .filter(Business.business_owner == current_user["id"])
MyBusinessesQuery(U, B, r) ==
    {j \in JoinOwner(U, B) : j.business.business_owner = r.cu.id}

get_my_businesses(U, B, r, ord) ==
    LET page == Page(ord, r.skip, r.limit) IN
    IF page = <<>>
    THEN Answer(U, B, 404, 0, 0, <<>>)
    ELSE Answer(U, B, 200, 0, 0, Serialize(page))

(***************************************************************************)
(* delete_business                                                         *)
(***************************************************************************)
\* Mutant: the dependency asks for the wrong role.
DeleteRequiredRole_Customer == "t_customer"

DeleteRequiredRole == "t_admin"

\* Mutant: a soft delete, the row stays in the table.
DeleteRows_Soft(B, business) == B

\* Mutant: the delete removes every business of the same owner.
DeleteRows_ByOwner(B, business) ==
    {b \in B : b.business_owner # business.business_owner}

\* db.delete(business); db.commit()
DeleteRows(B, business) == db_delete(B, business)

delete_business(U, B, r) ==
    IF ~role_required(DeleteRequiredRole, r.cu) THEN Answer(U, B, 403, 0, 0, <<>>)
    ELSE LET found == {b \in B : b.id = r.business_id} IN
         IF found = {} THEN Answer(U, B, 404, 0, 0, <<>>)
         ELSE IF r.cu.role # "t_admin" THEN Answer(U, B, 403, 0, 0, <<>>)
         ELSE IF r.fault = "delete" THEN Answer(U, B, 500, 0, 0, <<>>)
         ELSE Answer(U, DeleteRows(B, CHOOSE b \in found : TRUE), 200,
                     r.business_id, 0, <<>>)

(***************************************************************************)
(* Spec: the handlers, one request at a time                               *)
(***************************************************************************)
AdminUser == [id |-> 1, email |-> "admin@x", role |-> "t_admin", created_by |-> 1]

Init ==
    /\ users = {AdminUser}
    /\ businesses = {}
    /\ req = NoRequest
    /\ resp = NoResponse
    /\ pre_users = {AdminUser}
    /\ pre_businesses = {}
    /\ serial = TRUE
    /\ pc = <<>>
    /\ loc = <<>>

\* The handler's answer a to request r becomes the state.
Serve(r, a) ==
    /\ users' = a.users
    /\ businesses' = a.businesses
    /\ req' = r
    /\ resp' = Response(a)
    /\ pre_users' = users
    /\ pre_businesses' = businesses
    /\ UNCHANGED <<serial, pc, loc>>

\* The database generates a business id only when the handler reaches the
\* insert: the answer computed with no id tells whether it does.
CreateBusiness ==
    \E r \in CreateRequests(users) :
        \E nu \in UserChoices(users, r, r.cu) :
            LET dry == create_business(users, businesses, r, nu, 0) IN
            IF dry.status # 200
            THEN Serve(r, dry)
            ELSE \E bid \in FreeIds(businesses, BusinessIds) :
                    Serve(r, create_business(users, businesses, r, nu, bid))

\* get_business and get_all_businesses take no current_user.
GetBusiness ==
    \E id \in BusinessIds :
        LET r == Request("get_business", NoUser, "ok", "", "", NoLogo, "none", id, 0, 0) IN
        Serve(r, get_business(users, businesses, r))

GetAllBusinesses ==
    \E skip \in 0..MaxSkip, limit \in 0..MaxLimit :
        LET r == Request("get_all_businesses", NoUser, "ok", "", "", NoLogo, "none", 0, skip, limit) IN
        \E ord \in Orderings(AllBusinessesQuery(users, businesses, r)) :
            Serve(r, get_all_businesses(users, businesses, r, ord))

GetMyBusinesses ==
    \E cu \in get_current_user(users), skip \in 0..MaxSkip, limit \in 0..MaxLimit :
        LET r == Request("get_my_businesses", cu, "ok", "", "", NoLogo, "none", 0, skip, limit) IN
        \E ord \in Orderings(MyBusinessesQuery(users, businesses, r)) :
            Serve(r, get_my_businesses(users, businesses, r, ord))

DeleteBusiness ==
    \E cu \in get_current_user(users), id \in BusinessIds, fault \in DeleteFaults :
        LET r == Request("delete_business", cu, "ok", "", "", NoLogo, fault, id, 0, 0) IN
        Serve(r, delete_business(users, businesses, r))

Next ==
    \/ CreateBusiness
    \/ GetBusiness
    \/ GetAllBusinesses
    \/ GetMyBusinesses
    \/ DeleteBusiness

Spec == Init /\ [][Next]_vars


(***************************************************************************)
(* SpecC: create_business in two workers, one database statement per step  *)
(***************************************************************************)
Workers == {1, 2}

NoRow == [id |-> 0, email |-> "", role |-> "none", created_by |-> 0]

\* A worker's request, its new_user, its answer, and the requests it served.
Locals(r, nu, status, business_id, user_id, n) ==
    [r |-> r, new_user |-> nu, status |-> status, business_id |-> business_id,
     user_id |-> user_id, n |-> n]

InitC ==
    /\ users = {AdminUser}
    /\ businesses = {}
    /\ req = NoRequest
    /\ resp = NoResponse
    /\ pre_users = {AdminUser}
    /\ pre_businesses = {}
    /\ serial \in BOOLEAN
    /\ pc = [w \in Workers |-> "idle"]
    /\ loc = [w \in Workers |-> Locals(NoRequest, NoRow, 0, 0, 0, 0)]

\* The requests of SpecC: without a logo or with one that is too large;
\* database faults and the logos that are stored are left to Spec.
CRequests(U) ==
    {r \in CreateRequests(U) : r.fault = "none" /\ (r.logo.file => r.logo.len > LogoLimit)}

\* Worker w may take a new request.
CanStart(w) ==
    /\ pc[w] \in {"idle", "done"}
    /\ loc[w].n < MaxRequests
    /\ serial => \A v \in Workers \ {w} : pc[v] \in {"idle", "done"}

\* Worker w goes to label with locals l.
Goto(w, label, l) ==
    /\ pc' = [pc EXCEPT ![w] = label]
    /\ loc' = [loc EXCEPT ![w] = l]

\* Worker w answers: the handler returns, its locals are gone, the answer stays.
Done(w, status, business_id, user_id) ==
    Goto(w, "done", Locals(NoRequest, NoRow, status, business_id, user_id, loc[w].n))

Untouched == UNCHANGED <<req, resp, pre_users, pre_businesses, serial>>

\* The role dependency and json.loads
CStart(w) ==
    /\ CanStart(w)
    /\ \E r \in CRequests(users) :
        LET n == loc[w].n + 1 IN
        IF ~role_required(CreateRequiredRole, r.cu)
        THEN Goto(w, "done", Locals(NoRequest, NoRow, 403, 0, 0, n))
        ELSE IF r.json # "ok"
             THEN Goto(w, "done", Locals(NoRequest, NoRow, 400, 0, 0, n))
             ELSE Goto(w, "user_query", Locals(r, NoRow, 0, 0, 0, n))
    /\ UNCHANGED <<users, businesses>>
    /\ Untouched

\* existing_user = db.query(User).filter(...).first()
CUserQuery(w) ==
    /\ pc[w] = "user_query"
    /\ IF ExistingUsers(users, loc[w].r) # {}
       THEN \E nu \in ExistingUsers(users, loc[w].r) :
                Goto(w, "name_check", [loc[w] EXCEPT !.new_user = nu])
       ELSE Goto(w, "user_insert", loc[w])
    /\ UNCHANGED <<users, businesses>>
    /\ Untouched

\* db.add(new_user); db.commit(); db.refresh(new_user)
CUserInsert(w) ==
    /\ pc[w] = "user_insert"
    /\ \E uid \in FreeIds(users, UserIds) :
        LET nu == NewUser(uid, loc[w].r, loc[w].r.cu) IN
        /\ users' = db_add(users, nu)
        /\ Goto(w, "name_check", [loc[w] EXCEPT !.new_user = nu])
    /\ UNCHANGED businesses
    /\ Untouched

\* Step 2
CNameCheck(w) ==
    /\ pc[w] = "name_check"
    /\ IF Step2(businesses, loc[w].r) # 0
       THEN Done(w, Step2(businesses, loc[w].r), 0, 0)
       ELSE Goto(w, "logo", loc[w])
    /\ UNCHANGED <<users, businesses>>
    /\ Untouched

\* Step 3
CLogo(w) ==
    /\ pc[w] = "logo"
    /\ IF Step3(loc[w].r) # 0
       THEN Done(w, Step3(loc[w].r), 0, 0)
       ELSE Goto(w, "insert", loc[w])
    /\ UNCHANGED <<users, businesses>>
    /\ Untouched

\* Step 4 and the JSONResponse
CInsert(w) ==
    /\ pc[w] = "insert"
    /\ \E bid \in FreeIds(businesses, BusinessIds) :
        LET s4 == Step4(businesses, loc[w].r, loc[w].new_user, loc[w].r.cu, bid) IN
        /\ businesses' = s4.businesses
        /\ IF s4.status # 0
           THEN Done(w, s4.status, 0, 0)
           ELSE Done(w, 200, bid, loc[w].new_user.id)
    /\ UNCHANGED users
    /\ Untouched

\* delete_business, served by a worker in one step
CDelete(w) ==
    /\ CanStart(w)
    /\ \E cu \in get_current_user(users), id \in BusinessIds :
        LET r == Request("delete_business", cu, "ok", "", "", NoLogo, "none", id, 0, 0)
            a == delete_business(users, businesses, r)
        IN /\ businesses' = a.businesses
           /\ Goto(w, "done", Locals(NoRequest, NoRow, a.status, a.business_id, 0, loc[w].n + 1))
    /\ UNCHANGED users
    /\ Untouched

NextC ==
    \E w \in Workers :
        \/ CStart(w)
        \/ CUserQuery(w)
        \/ CUserInsert(w)
        \/ CNameCheck(w)
        \/ CLogo(w)
        \/ CInsert(w)
        \/ CDelete(w)

SpecC == InitC /\ [][NextC]_vars

(***************************************************************************)
(* Properties of Spec                                                      *)
(***************************************************************************)
\* The last request was a create_business that passed the role dependency
\* and the JSON parse, and the database raised nothing while serving it.
Admitted ==
    /\ req.op = "create_business"
    /\ req.cu.role = "t_admin"
    /\ req.json = "ok"
    /\ req.fault = "none"

EmailKnown == ExistingUsers(pre_users, req) # {}
NameTaken == \E b \in pre_businesses : b.name = req.name
LogoTooLarge == req.logo.file /\ req.logo.len > 5 * 1024 * 1024

NothingPersisted == users = pre_users /\ businesses = pre_businesses

\* C1: a create_business request whose business name is the name of an
\* existing business row is answered with 400 and leaves the user rows and
\* the business rows as they were, whether or not its email is registered.
C1_DuplicateNameRefused ==
    (Admitted /\ NameTaken) => (resp.status = 400 /\ NothingPersisted)

\* C2: a create_business request whose logo is larger than 5 MiB is answered
\* with 400 and leaves the user rows and the business rows as they were,
\* also when its email was not registered before.
C2_LargeLogoPersistsNothing ==
    (Admitted /\ ~NameTaken /\ LogoTooLarge) =>
        (resp.status = 400 /\ NothingPersisted)

\* C3: an admin's create_business with well-formed JSON, an unregistered
\* email, an unused business name and no logo or a logo of at most 5 MiB is
\* answered with 200 and adds exactly one user row, of role t_customer, and
\* exactly one business row; the returned ids are ids no row had before, and
\* the new business row's business_owner is the returned user_id.
C3_CreateAddsOneUserOneBusiness ==
    (Admitted /\ ~EmailKnown /\ ~NameTaken /\ ~LogoTooLarge) =>
        /\ resp.status = 200
        /\ \E u \in users \ pre_users :
            /\ users = pre_users \cup {u}
            /\ u.role = "t_customer"
            /\ u.email = req.email
            /\ u.id = resp.user_id
            /\ \A v \in pre_users : v.id # resp.user_id
        /\ \E b \in businesses \ pre_businesses :
            /\ businesses = pre_businesses \cup {b}
            /\ b.name = req.name
            /\ b.id = resp.business_id
            /\ \A c \in pre_businesses : c.id # resp.business_id
            /\ b.business_owner = resp.user_id

C3_Witness ==
    /\ Admitted /\ ~EmailKnown /\ ~NameTaken
    /\ req.logo.file /\ req.logo.len = 5 * 1024 * 1024
    /\ pre_businesses # {}
    /\ resp.status = 200

Absent(id, B) == \A b \in B : b.id # id

C4_State ==
    /\ (req.op = "delete_business" /\ resp.status = 200) =>
          /\ req.cu.role = "t_admin"
          /\ ~Absent(req.business_id, pre_businesses)
          /\ Absent(req.business_id, businesses)
    /\ req.op = "get_business" =>
          (resp.status = 404 <=> Absent(req.business_id, businesses))

C4_Step ==
    \A id \in BusinessIds :
        (Absent(id, businesses) /\ ~(req'.op = "create_business" /\ resp'.status = 200))
            => Absent(id, businesses')

\* C4: after delete_business succeeds for an admin on an existing business
\* id, no business row has that id; an id that no row has stays without a
\* row until a create_business succeeds; and get_business answers 404
\* exactly when no business row has the requested id.
C4_DeletedStaysNotFound == [](C4_State) /\ [][C4_Step]_vars

C4_Witness ==
    /\ req.op = "delete_business" /\ resp.status = 200
    /\ Absent(req.business_id, businesses)
    /\ businesses # {}

\* C5: a delete_business request by a caller whose role is not t_admin is
\* answered with 403 and leaves the business rows as they were, whether or
\* not a business row has the requested id.
C5_NonAdminDeleteRefused ==
    (req.op = "delete_business" /\ req.cu.role # "t_admin") =>
        (resp.status = 403 /\ NothingPersisted)

C5_Witness ==
    /\ req.op = "delete_business" /\ req.cu.role # "t_admin"
    /\ ~Absent(req.business_id, pre_businesses)
    /\ \E id \in BusinessIds : Absent(id, pre_businesses)
    /\ resp.status = 403

Owned == {b \in businesses : b.business_owner = req.cu.id}
OwnedInPage ==
    Min(req.skip + req.limit, Cardinality(Owned)) - Min(req.skip, Cardinality(Owned))

\* C6: get_my_businesses returns only business rows whose business_owner is
\* the caller's id, each at most once, as many as the page holds of the
\* caller's rows; when the page holds none of them the answer is 404.
C6_OnlyOwnBusinesses ==
    req.op = "get_my_businesses" =>
        /\ Len(resp.rows) = OwnedInPage
        /\ resp.status = (IF OwnedInPage = 0 THEN 404 ELSE 200)
        /\ \A i \in 1..Len(resp.rows) :
            /\ resp.rows[i].business_owner = req.cu.id
            /\ \E b \in Owned : b.id = resp.rows[i].id /\ b.name = resp.rows[i].name
            /\ \A j \in 1..Len(resp.rows) : i # j => resp.rows[i].id # resp.rows[j].id

C6_Witness ==
    /\ req.op = "get_my_businesses" /\ resp.status = 200
    /\ \E b \in businesses : b.business_owner # req.cu.id

UniqueEmails(U) == \A u, v \in U : u.email = v.email => u = v

\* C7: when a user row has the request's email, create_business adds and
\* changes no user row, and on success the returned user_id and the new
\* business row's business_owner are that user's id; a user row is added
\* only by a create_business whose email no user row had; no two user rows
\* share an email.
C7_ExistingUserReused ==
    /\ (Admitted /\ EmailKnown) =>
          /\ users = pre_users
          /\ resp.status = 200 =>
                /\ \E u \in pre_users : u.email = req.email /\ u.id = resp.user_id
                /\ \E b \in businesses \ pre_businesses :
                      b.id = resp.business_id /\ b.business_owner = resp.user_id
    /\ users # pre_users =>
          /\ req.op = "create_business" /\ ~EmailKnown
          /\ \E u \in users \ pre_users : users = pre_users \cup {u} /\ u.email = req.email
    /\ UniqueEmails(users)

C7_Witness ==
    /\ Admitted /\ EmailKnown /\ req.email # "admin@x"
    /\ resp.status = 200

\* C9: delete_business never changes a user row; when it succeeds it removes
\* exactly the business row with the requested id and leaves every other
\* business row as it was; answered with 404, 403 or 500 it changes no row.
C9_DeleteRemovesOneRow ==
    req.op = "delete_business" =>
        /\ users = pre_users
        /\ resp.status \in {200, 403, 404, 500}
        /\ resp.status = 200 =>
              \E b \in pre_businesses :
                  b.id = req.business_id /\ businesses = pre_businesses \ {b}
        /\ resp.status # 200 => businesses = pre_businesses

C9_Witness ==
    /\ req.op = "delete_business" /\ resp.status = 200
    /\ \E b \in pre_businesses \ businesses, c \in businesses, u \in users :
          /\ c.business_owner = b.business_owner
          /\ u.id = b.business_owner /\ u.role = "t_customer"

\* C10: every business row's business_owner is the id of a user row, and a
\* get_all_businesses whose page is large enough returns every business row.
C10_OwnerExists ==
    /\ \A b \in businesses : \E u \in users : u.id = b.business_owner
    /\ (req.op = "get_all_businesses" /\ req.skip = 0
            /\ req.limit >= Cardinality(businesses) /\ businesses # {}) =>
          /\ resp.status = 200
          /\ {resp.rows[i].id : i \in 1..Len(resp.rows)} = {b.id : b \in businesses}

C10_Witness ==
    /\ req.op = "get_all_businesses" /\ resp.status = 200
    /\ Len(resp.rows) = 2
    /\ resp.rows[1].business_owner # resp.rows[2].business_owner


(***************************************************************************)
(* Properties of SpecC                                                     *)
(***************************************************************************)
UniqueNames(B) == \A b, c \in B : b.name = c.name => b = c

\* C8: when requests run one at a time, no two business rows have the same
\* name. (That two concurrent requests with the same unused name can both
\* pass the name check, both succeed and leave two rows with that name is
\* the state C8_Witness describes.)
C8_SerialNamesUnique == serial => UniqueNames(businesses)

C8_Witness ==
    /\ ~serial
    /\ \A w \in Workers :
        /\ pc[w] = "done"
        /\ loc[w].status = 200
        /\ loc[w].user_id # 0
        /\ loc[w].n = 1
    /\ \E b, c \in businesses :
        /\ b.id = loc[1].business_id /\ c.id = loc[2].business_id
        /\ b # c
        /\ b.name = c.name

====
